---------------------------- MODULE Spec2Model ----------------------------
(***************************************************************************)
(* Verification model of the HR multi-agent chatbot (YeharaMewan/hr_2).    *)
(*                                                                         *)
(* Modelled parts:                                                         *)
(*   - SupervisorAgent: analyze_task_type, determine_target_agent,         *)
(*     check_authorization          (backend/agents/supervisor_agent.py)   *)
(*   - SupervisorTaskRouter: analyze_query_intent, check_authorization     *)
(*                              (backend/multiagent/supervisor_system.py)  *)
(*   - HRSwarmSystem.process_message and its detectors / intent routing    *)
(*                                  (backend/multiagent/swarm_system.py)   *)
(*   - LeaveAgent tools over the employees collection                      *)
(*     (backend/agents/leave_agent.py, backend/tools/database_tools.py)    *)
(*                                                                         *)
(* Text is modelled with TLA+ strings; Python's str.lower / str.upper /    *)
(* str.strip / the `in` substring test / re.search with \b are operators   *)
(* computed character by character.                                        *)
(***************************************************************************)
EXTENDS Integers, Sequences, FiniteSets, TLC

VARIABLES
    \* --- SupervisorAgent routing decision (one request) ---
    sup_pc,          \* position of the request in classify -> lookup -> authorize
    user_query,      \* the free-text query
    user_role,       \* HRAgentState.user_role
    task_type,       \* HRAgentState.task_type
    target_agent,    \* result of determine_target_agent
    authorized,      \* first component of check_authorization's result
    denial_reason,   \* second component of check_authorization's result
    query_intent,    \* result of SupervisorTaskRouter.analyze_query_intent
    \* --- HRSwarmSystem ---
    is_initialized,  \* HRSwarmSystem.is_initialized
    swarm_app,       \* HRSwarmSystem.swarm_app: "compiled" or "None"
    user_sessions,   \* HRSwarmSystem.user_sessions: thread_id -> session dict
    swarm_calls,     \* the calls of swarm_app.invoke made so far, in order
    chat_reply,      \* outcome of the last process_message call
    \* --- employees collection and LeaveAgent tools ---
    employees_collection,  \* database_tools.employees_collection: "connected" or "None"
    employees,       \* the documents of the collection: employee_id -> document
    leave_reply,     \* outcome of the last LeaveAgent tool call
    apply_calls,     \* apply_for_leave_tool calls in progress: call -> its locals
    employees_at_start, \* the documents as they were when those calls started
    \* --- web_server.py: sessions and the chat endpoint ---
    now,             \* datetime.now(), in units of 12 hours
    active_sessions, \* web_server.active_sessions: session_id -> session dict
    issued_sessions, \* session ids created so far (their tokens are with the clients)
    chat_calls,      \* enhanced_chat requests in progress: thread -> its locals
    cleanup_calls,   \* cleanup_old_sessions calls in progress: caller -> its locals
    messages_processed, \* per session: messages answered since login / reset
    web_reply        \* the last response the server has sent

supVars == <<sup_pc, user_query, user_role, task_type, target_agent,
             authorized, denial_reason, query_intent>>

swarmVars == <<is_initialized, swarm_app, user_sessions, swarm_calls, chat_reply>>

leaveVars == <<employees_collection, employees, leave_reply,
               apply_calls, employees_at_start>>

webVars == <<now, active_sessions, issued_sessions, chat_calls, cleanup_calls,
             messages_processed, web_reply>>

vars == <<supVars, swarmVars, leaveVars, webVars>>

-----------------------------------------------------------------------------
(* Bounds of the model *)

\* number of vocabulary words joined into one query
MaxWords == 2

\* number of process_message calls in one run of the swarm system
MaxChat == 2

\* largest leave balance an employee starts with
MaxBalance == 2

\* the clock of the web server stops at this value (units of 12 hours)
MaxTime == 3

\* chat requests are accepted while conversation_count is below this value
MaxCount == 2

-----------------------------------------------------------------------------
(* Python string primitives *)

UpperLetters ==
    <<"A","B","C","D","E","F","G","H","I","J","K","L","M",
      "N","O","P","Q","R","S","T","U","V","W","X","Y","Z">>

LowerLetters ==
    <<"a","b","c","d","e","f","g","h","i","j","k","l","m",
      "n","o","p","q","r","s","t","u","v","w","x","y","z">>

Digits == {"0","1","2","3","4","5","6","7","8","9"}

IndexOf(c, letters) ==
    IF \E i \in 1..Len(letters) : letters[i] = c
    THEN CHOOSE i \in 1..Len(letters) : letters[i] = c
    ELSE 0

\* one character of str.lower(): A-Z map to a-z, everything else is kept
LowerChar(c) ==
    LET i == IndexOf(c, UpperLetters) IN IF i = 0 THEN c ELSE LowerLetters[i]

\* one character of str.upper(): a-z map to A-Z, everything else is kept
UpperChar(c) ==
    LET i == IndexOf(c, LowerLetters) IN IF i = 0 THEN c ELSE UpperLetters[i]

CharAt(s, i) == SubSeq(s, i, i)

RECURSIVE Lower(_)
\* str.lower()
Lower(s) ==
    IF s = "" THEN ""
    ELSE LowerChar(CharAt(s, 1)) \o Lower(SubSeq(s, 2, Len(s)))

RECURSIVE Upper(_)
\* str.upper()
Upper(s) ==
    IF s = "" THEN ""
    ELSE UpperChar(CharAt(s, 1)) \o Upper(SubSeq(s, 2, Len(s)))

\* Python's `kw in s` on strings: kw occurs as a contiguous substring of s
Contains(kw, s) ==
    \E i \in 1..(Len(s) - Len(kw) + 1) : SubSeq(s, i, i + Len(kw) - 1) = kw

\* any(keyword in s for keyword in keywords)
ContainsAny(keywords, s) == \E kw \in keywords : Contains(kw, s)

\* sum(1 for keyword in keywords if keyword in s)
CountContained(keywords, s) == Cardinality({kw \in keywords : Contains(kw, s)})

Whitespace == {" "}

RECURSIVE LStrip(_)
LStrip(s) ==
    IF s # "" /\ CharAt(s, 1) \in Whitespace THEN LStrip(SubSeq(s, 2, Len(s))) ELSE s

RECURSIVE RStrip(_)
RStrip(s) ==
    IF s # "" /\ CharAt(s, Len(s)) \in Whitespace
    THEN RStrip(SubSeq(s, 1, Len(s) - 1)) ELSE s

\* str.strip()
Strip(s) == RStrip(LStrip(s))

\* the regular expression class \w
IsWordChar(c) ==
    \/ IndexOf(c, LowerLetters) # 0
    \/ IndexOf(c, UpperLetters) # 0
    \/ c \in Digits
    \/ c = "_"

\* re.search(r'\b(a1|a2|...)\b', s, re.IGNORECASE) for alternatives that
\* begin and end with a word character: an occurrence of some alternative
\* that is not preceded and not followed by a word character
ReSearchWords(alts, s) ==
    LET t == Lower(s) IN
    \E alt \in alts : \E i \in 1..(Len(t) - Len(alt) + 1) :
        LET j == i + Len(alt) - 1 IN
        /\ SubSeq(t, i, j) = alt
        /\ (i = 1 \/ ~IsWordChar(CharAt(t, i - 1)))
        /\ (j = Len(t) \/ ~IsWordChar(CharAt(t, j + 1)))

-----------------------------------------------------------------------------
(* backend/models/state.py *)

LEAVE_BALANCE     == "leave_balance"
LEAVE_APPLICATION == "leave_application"
LEAVE_HISTORY     == "leave_history"
EMPLOYEE_OVERVIEW == "employee_overview"
EMPLOYEE_SEARCH   == "employee_search"
DEPARTMENT_STATS  == "department_stats"
REPORTING         == "reporting"
ANALYTICS         == "analytics"
GENERAL_QUERY     == "general_query"

\* class TaskType: the closed enumeration of task categories
TaskType ==
    {LEAVE_BALANCE, LEAVE_APPLICATION, LEAVE_HISTORY, EMPLOYEE_OVERVIEW,
     EMPLOYEE_SEARCH, DEPARTMENT_STATS, REPORTING, ANALYTICS, GENERAL_QUERY}

\* class AgentNames, without the supervisor itself
AgentNames == {"leave_agent", "employee_agent", "reporting_agent", "analysis_agent"}

-----------------------------------------------------------------------------
(* SupervisorAgent.analyze_task_type *)

leave_keywords ==
    {"balance", "leave", "holiday", "vacation", "time off", "days left",
     "apply", "book", "request", "absence", "pto", "annual leave"}

employee_keywords ==
    {"employee", "profile", "information", "details", "find", "search",
     "contact", "who is", "staff", "person", "colleague"}

\* variant: 'overview' and 'all employees' are not reporting keywords
reporting_keywords_without_overview ==
    {"report", "statistics", "stats",
     "department", "summary", "list", "count", "total"}

reporting_keywords ==
    {"report", "overview", "statistics", "stats", "all employees",
     "department", "summary", "list", "count", "total"}

analytics_keywords ==
    {"trend", "analysis", "insight", "pattern", "analytics",
     "forecast", "prediction", "compare", "most", "least"}

\* variant: the final `return TaskType.GENERAL_QUERY` is missing (returns None)
analyze_task_type_no_default(query_lower) ==
    IF ContainsAny(leave_keywords, query_lower)
    THEN IF Contains("history", query_lower) THEN LEAVE_HISTORY
         ELSE IF ContainsAny({"apply", "book", "request"}, query_lower)
              THEN LEAVE_APPLICATION
              ELSE LEAVE_BALANCE
    ELSE IF ContainsAny(analytics_keywords, query_lower) THEN ANALYTICS
    ELSE IF ContainsAny(reporting_keywords, query_lower)
    THEN IF Contains("department", query_lower) THEN DEPARTMENT_STATS
         ELSE REPORTING
    ELSE IF ContainsAny(employee_keywords, query_lower)
    THEN IF Contains("all", query_lower) \/ Contains("overview", query_lower)
         THEN EMPLOYEE_OVERVIEW
         ELSE EMPLOYEE_SEARCH
    ELSE "None"

\* variant: the fallback is the employee search, as in determine_target_agent
analyze_task_type_default_search(query_lower) ==
    IF ContainsAny(leave_keywords, query_lower)
    THEN IF Contains("history", query_lower) THEN LEAVE_HISTORY
         ELSE IF ContainsAny({"apply", "book", "request"}, query_lower)
              THEN LEAVE_APPLICATION
              ELSE LEAVE_BALANCE
    ELSE IF ContainsAny(analytics_keywords, query_lower) THEN ANALYTICS
    ELSE IF ContainsAny(reporting_keywords, query_lower)
    THEN IF Contains("department", query_lower) THEN DEPARTMENT_STATS
         ELSE REPORTING
    ELSE IF ContainsAny(employee_keywords, query_lower)
    THEN IF Contains("all", query_lower) \/ Contains("overview", query_lower)
         THEN EMPLOYEE_OVERVIEW
         ELSE EMPLOYEE_SEARCH
    ELSE EMPLOYEE_SEARCH

\* variant: the analytics family is tried before the leave family
analyze_task_type_analytics_first(query_lower) ==
    IF ContainsAny(analytics_keywords, query_lower) THEN ANALYTICS
    ELSE IF ContainsAny(leave_keywords, query_lower)
    THEN IF Contains("history", query_lower) THEN LEAVE_HISTORY
         ELSE IF ContainsAny({"apply", "book", "request"}, query_lower)
              THEN LEAVE_APPLICATION
              ELSE LEAVE_BALANCE
    ELSE IF ContainsAny(reporting_keywords, query_lower)
    THEN IF Contains("department", query_lower) THEN DEPARTMENT_STATS
         ELSE REPORTING
    ELSE IF ContainsAny(employee_keywords, query_lower)
    THEN IF Contains("all", query_lower) \/ Contains("overview", query_lower)
         THEN EMPLOYEE_OVERVIEW
         ELSE EMPLOYEE_SEARCH
    ELSE GENERAL_QUERY

\* variant: the employee family is tried before the reporting family
analyze_task_type_employee_first(query_lower) ==
    IF ContainsAny(leave_keywords, query_lower)
    THEN IF Contains("history", query_lower) THEN LEAVE_HISTORY
         ELSE IF ContainsAny({"apply", "book", "request"}, query_lower)
              THEN LEAVE_APPLICATION
              ELSE LEAVE_BALANCE
    ELSE IF ContainsAny(analytics_keywords, query_lower) THEN ANALYTICS
    ELSE IF ContainsAny(employee_keywords, query_lower)
    THEN IF Contains("all", query_lower) \/ Contains("overview", query_lower)
         THEN EMPLOYEE_OVERVIEW
         ELSE EMPLOYEE_SEARCH
    ELSE IF ContainsAny(reporting_keywords, query_lower)
    THEN IF Contains("department", query_lower) THEN DEPARTMENT_STATS
         ELSE REPORTING
    ELSE GENERAL_QUERY

\* variant: the application words are tested before "history"
analyze_task_type_apply_first(query_lower) ==
    IF ContainsAny(leave_keywords, query_lower)
    THEN IF ContainsAny({"apply", "book", "request"}, query_lower)
         THEN LEAVE_APPLICATION
         ELSE IF Contains("history", query_lower) THEN LEAVE_HISTORY
              ELSE LEAVE_BALANCE
    ELSE IF ContainsAny(analytics_keywords, query_lower) THEN ANALYTICS
    ELSE IF ContainsAny(reporting_keywords, query_lower)
    THEN IF Contains("department", query_lower) THEN DEPARTMENT_STATS
         ELSE REPORTING
    ELSE IF ContainsAny(employee_keywords, query_lower)
    THEN IF Contains("all", query_lower) \/ Contains("overview", query_lower)
         THEN EMPLOYEE_OVERVIEW
         ELSE EMPLOYEE_SEARCH
    ELSE GENERAL_QUERY

\* variant: the reporting branch has no "department" test
analyze_task_type_no_department(query_lower) ==
    IF ContainsAny(leave_keywords, query_lower)
    THEN IF Contains("history", query_lower) THEN LEAVE_HISTORY
         ELSE IF ContainsAny({"apply", "book", "request"}, query_lower)
              THEN LEAVE_APPLICATION
              ELSE LEAVE_BALANCE
    ELSE IF ContainsAny(analytics_keywords, query_lower) THEN ANALYTICS
    ELSE IF ContainsAny(reporting_keywords, query_lower) THEN REPORTING
    ELSE IF ContainsAny(employee_keywords, query_lower)
    THEN IF Contains("all", query_lower) \/ Contains("overview", query_lower)
         THEN EMPLOYEE_OVERVIEW
         ELSE EMPLOYEE_SEARCH
    ELSE GENERAL_QUERY

\* variant: the employee branch tests the word "overview" only
analyze_task_type_overview_only(query_lower) ==
    IF ContainsAny(leave_keywords, query_lower)
    THEN IF Contains("history", query_lower) THEN LEAVE_HISTORY
         ELSE IF ContainsAny({"apply", "book", "request"}, query_lower)
              THEN LEAVE_APPLICATION
              ELSE LEAVE_BALANCE
    ELSE IF ContainsAny(analytics_keywords, query_lower) THEN ANALYTICS
    ELSE IF ContainsAny(reporting_keywords, query_lower)
    THEN IF Contains("department", query_lower) THEN DEPARTMENT_STATS
         ELSE REPORTING
    ELSE IF ContainsAny(employee_keywords, query_lower)
    THEN IF Contains("overview", query_lower)
         THEN EMPLOYEE_OVERVIEW
         ELSE EMPLOYEE_SEARCH
    ELSE GENERAL_QUERY

\* the if / elif chain on the lower-cased query
analyze_task_type_lower(query_lower) ==
    IF ContainsAny(leave_keywords, query_lower)
    THEN IF Contains("history", query_lower) THEN LEAVE_HISTORY
         ELSE IF ContainsAny({"apply", "book", "request"}, query_lower)
              THEN LEAVE_APPLICATION
              ELSE LEAVE_BALANCE
    ELSE IF ContainsAny(analytics_keywords, query_lower) THEN ANALYTICS
    ELSE IF ContainsAny(reporting_keywords, query_lower)
    THEN IF Contains("department", query_lower) THEN DEPARTMENT_STATS
         ELSE REPORTING
    ELSE IF ContainsAny(employee_keywords, query_lower)
    THEN IF Contains("all", query_lower) \/ Contains("overview", query_lower)
         THEN EMPLOYEE_OVERVIEW
         ELSE EMPLOYEE_SEARCH
    ELSE GENERAL_QUERY

\* variant: the keywords are matched on the query as typed (no .lower())
analyze_task_type_as_typed(query) == analyze_task_type_lower(query)

analyze_task_type(query) == analyze_task_type_lower(Lower(query))

-----------------------------------------------------------------------------
(* SupervisorAgent.determine_target_agent *)

\* variant: routing_map.get(task_type) without the "employee_agent" default
determine_target_agent_no_default(tt) ==
    CASE tt = LEAVE_BALANCE     -> "leave_agent"
      [] tt = LEAVE_APPLICATION -> "leave_agent"
      [] tt = LEAVE_HISTORY     -> "leave_agent"
      [] tt = EMPLOYEE_OVERVIEW -> "reporting_agent"
      [] tt = EMPLOYEE_SEARCH   -> "employee_agent"
      [] tt = DEPARTMENT_STATS  -> "reporting_agent"
      [] tt = REPORTING         -> "reporting_agent"
      [] tt = ANALYTICS         -> "analysis_agent"
      [] tt = GENERAL_QUERY     -> "employee_agent"
      [] OTHER                  -> "None"

\* variant: analytics is handled by the reporting agent
determine_target_agent_analytics_as_report(tt) ==
    CASE tt = LEAVE_BALANCE     -> "leave_agent"
      [] tt = LEAVE_APPLICATION -> "leave_agent"
      [] tt = LEAVE_HISTORY     -> "leave_agent"
      [] tt = EMPLOYEE_OVERVIEW -> "reporting_agent"
      [] tt = EMPLOYEE_SEARCH   -> "employee_agent"
      [] tt = DEPARTMENT_STATS  -> "reporting_agent"
      [] tt = REPORTING         -> "reporting_agent"
      [] tt = ANALYTICS         -> "reporting_agent"
      [] tt = GENERAL_QUERY     -> "employee_agent"
      [] OTHER                  -> "employee_agent"

determine_target_agent(tt) ==
    CASE tt = LEAVE_BALANCE     -> "leave_agent"
      [] tt = LEAVE_APPLICATION -> "leave_agent"
      [] tt = LEAVE_HISTORY     -> "leave_agent"
      [] tt = EMPLOYEE_OVERVIEW -> "reporting_agent"
      [] tt = EMPLOYEE_SEARCH   -> "employee_agent"
      [] tt = DEPARTMENT_STATS  -> "reporting_agent"
      [] tt = REPORTING         -> "reporting_agent"
      [] tt = ANALYTICS         -> "analysis_agent"
      [] tt = GENERAL_QUERY     -> "employee_agent"
      [] OTHER                  -> "employee_agent"

-----------------------------------------------------------------------------
(* SupervisorAgent.check_authorization *)

RestrictedReason ==
    "You don't have permission to access this information. This feature is restricted to HR personnel."

\* variant: DEPARTMENT_STATS left out of the restricted list
restricted_tasks_without_stats == {EMPLOYEE_OVERVIEW, REPORTING, ANALYTICS}

restricted_tasks == {EMPLOYEE_OVERVIEW, DEPARTMENT_STATS, REPORTING, ANALYTICS}

\* variant: the HR early return is missing, the restrictions apply to every role
check_authorization_no_hr_bypass(role, tt) ==
    IF tt \in restricted_tasks
    THEN [allowed |-> FALSE, reason |-> RestrictedReason]
    ELSE [allowed |-> TRUE, reason |-> ""]

\* variant: the denial carries no message
check_authorization_empty_reason(role, tt) ==
    LET role_upper == Upper(role) IN
    IF role_upper = "HR" THEN [allowed |-> TRUE, reason |-> ""]
    ELSE IF role_upper = "EMPLOYEE" /\ tt \in restricted_tasks
         THEN [allowed |-> FALSE, reason |-> ""]
         ELSE [allowed |-> TRUE, reason |-> ""]

check_authorization(role, tt) ==
    LET role_upper == Upper(role) IN
    IF role_upper = "HR" THEN [allowed |-> TRUE, reason |-> ""]
    ELSE IF role_upper = "EMPLOYEE" /\ tt \in restricted_tasks
         THEN [allowed |-> FALSE, reason |-> RestrictedReason]
         ELSE [allowed |-> TRUE, reason |-> ""]

-----------------------------------------------------------------------------
(* SupervisorTaskRouter.analyze_query_intent *)

\* the keys of `patterns`, in insertion order
PatternOrder == <<"leave_agent", "employee_agent", "reporting_agent", "analysis_agent">>

patterns ==
    [agent \in AgentNames |->
        CASE agent = "leave_agent" ->
               {"leave", "balance", "holiday", "vacation", "time off",
                "apply", "book", "request", "absence", "days left"}
          [] agent = "employee_agent" ->
               {"employee", "staff", "find", "search", "profile",
                "contact", "who is", "details", "information"}
          [] agent = "reporting_agent" ->
               {"report", "overview", "statistics", "stats", "summary",
                "all employees", "department", "total", "count"}
          [] agent = "analysis_agent" ->
               {"trend", "analysis", "insight", "pattern", "analytics",
                "forecast", "prediction", "compare", "most", "least"}]

\* the result dict; confidence is the fraction <<numerator, denominator>>,
\* matched is the number printed in routing_reason
analyze_query_intent(query, role) ==
    LET query_lower == Lower(query)
        score == [agent \in AgentNames |-> CountContained(patterns[agent], query_lower)]
        scores == [agent \in {a \in AgentNames : score[a] > 0} |-> score[agent]]
    IN IF DOMAIN scores # {}
       THEN \* max(scores, key=scores.get): the first key with the largest score
            LET i == CHOOSE k \in 1..Len(PatternOrder) :
                        /\ \A j \in 1..Len(PatternOrder) :
                              score[PatternOrder[j]] <= score[PatternOrder[k]]
                        /\ \A j \in 1..(k - 1) :
                              score[PatternOrder[j]] < score[PatternOrder[k]]
                best_agent == PatternOrder[i]
            IN [target_agent |-> best_agent,
                confidence |-> <<scores[best_agent], Cardinality(patterns[best_agent])>>,
                all_scores |-> scores,
                matched |-> scores[best_agent]]
       ELSE [target_agent |-> "employee_agent",
             confidence |-> <<1, 10>>,
             all_scores |-> scores,
             matched |-> 0]

-----------------------------------------------------------------------------
(* SupervisorTaskRouter.check_authorization *)

restricted_patterns ==
    << <<"all employees", "reporting_agent">>,
       <<"employee overview", "reporting_agent">>,
       <<"department stats", "reporting_agent">>,
       <<"analytics", "analysis_agent">>,
       <<"insights", "analysis_agent">> >>

router_check_authorization(role, agent, query) ==
    LET user_role_upper == Upper(role)
        query_lower == Lower(query)
        hits == {k \in 1..Len(restricted_patterns) :
                    /\ Contains(restricted_patterns[k][1], query_lower)
                    /\ agent = restricted_patterns[k][2]}
    IN IF user_role_upper = "HR" THEN [allowed |-> TRUE, reason |-> ""]
       ELSE IF user_role_upper = "EMPLOYEE" /\ hits # {}
            THEN LET first == CHOOSE k \in hits : \A j \in hits : k <= j
                 IN [allowed |-> FALSE,
                     reason |-> "Access denied: " \o restricted_patterns[first][1]
                                  \o " queries are restricted to HR personnel"]
            ELSE [allowed |-> TRUE, reason |-> ""]

-----------------------------------------------------------------------------
(* Inputs *)

\* role strings handed to check_authorization
RoleStrings ==
    {"HR", "hr", "Hr", "hR", "Employee", "EMPLOYEE", "employee",
     "garbage-role", "Admin", "manager", ""}

\* task_type is a plain str: the nine categories and one value outside them
TaskTypeInputs == TaskType \cup {"unknown_task"}

Vocabulary ==
    {"leave", "Balance", "apply", "history", "time", "off",
     "trend", "almost",
     "report", "department", "specialist", "overview", "STATS",
     "employee", "find", "all", "employees",
     "hello", "salary", "finally"}

RECURSIVE Join(_)
\* " ".join(words)
Join(words) ==
    IF Len(words) = 0 THEN ""
    ELSE IF Len(words) = 1 THEN words[1]
    ELSE words[1] \o " " \o Join(Tail(words))

WordQueries ==
    {Join(ws) : ws \in UNION {[1..n -> Vocabulary] : n \in 0..MaxWords}}

\* queries quoted by the specification and by the repository's tests
ExampleQueries ==
    {"check my leave history", "apply for leave tomorrow", "what is my balance",
     "show department stats", "generate report", "find employee John",
     "show all employees overview", "check balance for E003", "show analytics",
     "show leave trends and analytics", "generate department report",
     "show all employees analytics", "generate organizational insights",
     "department statistics for all departments"}

Queries == WordQueries \cup ExampleQueries

\* one character with its case exchanged
SwapChar(c) == IF IndexOf(c, UpperLetters) # 0 THEN LowerChar(c) ELSE UpperChar(c)

RECURSIVE ReCase(_, _)
\* the query with the case of its letters changed; mode "swap" exchanges the
\* case of every letter, mode "odd" (resp. "even") puts the letters at odd
\* (resp. even) positions in upper case and the others in lower case
ReCase(s, mode) ==
    IF s = "" THEN ""
    ELSE LET c    == CharAt(s, 1)
             rest == SubSeq(s, 2, Len(s))
         IN CASE mode = "swap" -> SwapChar(c) \o ReCase(rest, "swap")
              [] mode = "odd"  -> UpperChar(c) \o ReCase(rest, "even")
              [] mode = "even" -> LowerChar(c) \o ReCase(rest, "odd")

\* re-casings of a query: all upper, all lower, swapped, alternating
ReCasings(s) ==
    {Upper(s), Lower(s), ReCase(s, "swap"), ReCase(s, "odd"), ReCase(s, "even")}

-----------------------------------------------------------------------------
(* Values of the parts of the state a specification does not exercise *)

\* no analyze_query_intent call has been made
NoIntent ==
    [target_agent |-> "None", confidence |-> <<0, 1>>, all_scores |-> <<>>,
     matched |-> 0]

SupIdle ==
    /\ query_intent = NoIntent
    /\ sup_pc = "idle"
    /\ user_query = ""
    /\ user_role = "Employee"
    /\ task_type = ""
    /\ target_agent = ""
    /\ authorized = TRUE
    /\ denial_reason = ""

NoReply ==
    [kind |-> "none", message |-> "", thread_id |-> "None",
     user_role |-> "None", invoked |-> FALSE]

SwarmIdle ==
    /\ is_initialized = FALSE
    /\ swarm_app = "None"
    /\ user_sessions = <<>>
    /\ swarm_calls = <<>>
    /\ chat_reply = NoReply

NoLeaveReply ==
    [tool |-> "none", caller_id |-> "None", caller_role |-> "None",
     employee_id |-> "None", leave_dates |-> <<>>, outcome |-> "none",
     shown_balance |-> {}, shown_history |-> {}, wrote |-> FALSE]

LeaveIdle ==
    /\ employees_collection = "None"
    /\ employees = <<>>
    /\ leave_reply = NoLeaveReply
    /\ apply_calls = <<>>
    /\ employees_at_start = <<>>

\* no response has been sent
NoWebReply ==
    [endpoint |-> "none", session_id |-> "None", status |-> 0, message |-> ""]

WebIdle ==
    /\ now = 0
    /\ active_sessions = <<>>
    /\ issued_sessions = {}
    /\ chat_calls = <<>>
    /\ cleanup_calls = <<>>
    /\ messages_processed = <<>>
    /\ web_reply = NoWebReply

-----------------------------------------------------------------------------
(* HRSwarmSystem: detectors of _handle_with_conversational_intelligence *)

greeting_patterns ==
    {"hi", "hello", "hey", "hiya", "howdy",
     "good morning", "good afternoon", "good evening",
     "what's up", "wassup", "sup",
     "how are you", "how's it going", "how are things"}

gratitude_patterns ==
    {"thank you", "thanks", "thx", "appreciate",
     "grateful", "thankful",
     "that helped", "that was helpful"}

casual_patterns ==
    {"weather", "coffee", "lunch", "weekend", "plans",
     "how was your", "tell me about",
     "what do you think", "your opinion",
     "just chatting", "just talking"}

help_patterns ==
    {"help", "assist", "support",
     "what can you do", "what do you do",
     "i need", "i want", "can you",
     "show me", "tell me about"}

emotional_patterns ==
    {"stressed", "overwhelmed", "frustrated", "tired", "exhausted",
     "difficult", "hard", "tough", "challenging",
     "confused", "lost", "don't know",
     "worried", "anxious", "concerned"}

_is_greeting(message) == ReSearchWords(greeting_patterns, message)

_is_gratitude(message) == ReSearchWords(gratitude_patterns, message)

_is_casual_conversation(message) == ReSearchWords(casual_patterns, message)

_is_help_request(message) == ReSearchWords(help_patterns, message)

_needs_emotional_support(message) == ReSearchWords(emotional_patterns, message)

-----------------------------------------------------------------------------
(* HRSwarmSystem._analyze_intent *)

\* the keys of intent_patterns in insertion order
IntentOrder == <<"leave_management", "employee_search", "reporting", "analytics">>

intent_patterns ==
    [leave_management |->
        [patterns |-> {"leave", "vacation", "balance", "time off", "holiday", "pto", "sick"},
         agent |-> "Leave Specialist"],
     employee_search |->
        [patterns |-> {"find", "employee", "contact", "who is", "directory", "search",
                       "phone", "email"},
         agent |-> "Employee Database Expert"],
     reporting |->
        [patterns |-> {"report", "statistics", "overview", "summary", "department",
                       "metrics", "data"},
         agent |-> "Reporting Specialist"],
     analytics |->
        [patterns |-> {"trend", "analysis", "insight", "forecast", "pattern",
                       "analytics", "predict"},
         agent |-> "Analytics Expert"]]

\* scores of all intents; max(scores.items(), key=score) keeps the first
\* intent, in insertion order, among those with the highest score
_analyze_intent(message) ==
    LET score == [k \in DOMAIN intent_patterns |->
                     CountContained(intent_patterns[k].patterns, message)]
        scored == {i \in 1..Len(IntentOrder) : score[IntentOrder[i]] > 0}
    IN IF scored # {}
       THEN LET top == CHOOSE i \in scored :
                         \A j \in scored :
                            \/ score[IntentOrder[j]] < score[IntentOrder[i]]
                            \/ (score[IntentOrder[j]] = score[IntentOrder[i]] /\ i <= j)
                name == IntentOrder[top]
            IN [intent |-> name, confidence |-> score[name],
                suggested_agent |-> intent_patterns[name].agent]
       ELSE [intent |-> "unclear", confidence |-> 0, suggested_agent |-> "None"]

-----------------------------------------------------------------------------
(* HRSwarmSystem.process_message *)

\* dict.get(key, default)
DictGet(d, key, default) == IF key \in DOMAIN d THEN d[key] ELSE default

\* dict.update(other)
DictUpdate(d, other) ==
    [k \in DOMAIN d \cup DOMAIN other |-> IF k \in DOMAIN other THEN other[k] ELSE d[k]]

\* the session dict created for a thread_id seen for the first time
NewSession(user_context) ==
    [conversation_history |-> <<>>,
     user_context |-> user_context,
     last_intent |-> "None"]

\* callers as the web server hands them over: session user_data
UserContexts ==
    {[user_id |-> "E001", user_role |-> "HR", user_name |-> "Sarah"],
     [user_id |-> "E003", user_role |-> "Employee", user_name |-> "John"]}

\* thread ids: the web server passes the session id
ThreadIds == {"sid-1", "sid-2"}

ChatMessages ==
    {"show all employees analytics", "generate organizational insights",
     "department statistics for all departments", "what is my leave balance",
     "hello", "thanks for the report", "lunch plans", "can you show analytics",
     "this is hard", "good day",
     "hello thanks for the help", "tell me about the weekend",
     "i need help i am stressed"}

\* variant: the help detector is tried before the casual one
first_detector_help_before_casual(message_lower) ==
    IF _is_greeting(message_lower) THEN "greeting"
    ELSE IF _is_gratitude(message_lower) THEN "gratitude"
    ELSE IF _is_help_request(message_lower) THEN "help"
    ELSE IF _is_casual_conversation(message_lower) THEN "casual"
    ELSE IF _needs_emotional_support(message_lower) THEN "emotional"
    ELSE "none"

\* the first detector of _handle_with_conversational_intelligence that
\* matches, in the order the code tries them
first_detector(message_lower) ==
    IF _is_greeting(message_lower) THEN "greeting"
    ELSE IF _is_gratitude(message_lower) THEN "gratitude"
    ELSE IF _is_casual_conversation(message_lower) THEN "casual"
    ELSE IF _is_help_request(message_lower) THEN "help"
    ELSE IF _needs_emotional_support(message_lower) THEN "emotional"
    ELSE "none"

\* what the detectors and _analyze_intent compute from the text of each
\* message, evaluated once per message
MessageAnalysis ==
    [m \in ChatMessages |->
        [detector |-> first_detector(Strip(Lower(m))),
         intent |-> _analyze_intent(Lower(m))]]

\* _route_to_specialized_agent: the kind of answer and the swarm_app.invoke
\* call it makes, if any.  invoke_raises is the behaviour of the external
\* swarm (model call, result decoding) for this call.
_route_to_specialized_agent(message, user_context, session, invoke_raises) ==
    LET intent_analysis == MessageAnalysis[message].intent IN
    IF intent_analysis.confidence > 0
    THEN IF ~is_initialized
         THEN [kind |-> "handoff_fallback", invoked |-> FALSE, thread_id |-> "None"]
         ELSE IF swarm_app # "None"
              THEN [kind |-> IF invoke_raises THEN "handoff_hiccup"
                                              ELSE "handoff_specialist",
                    invoked |-> TRUE,
                    thread_id |-> DictGet(session, "thread_id", "default")]
              ELSE [kind |-> "handoff_direct", invoked |-> FALSE, thread_id |-> "None"]
    ELSE [kind |-> "clarification", invoked |-> FALSE, thread_id |-> "None"]

\* _handle_with_conversational_intelligence: the answer of the first matching
\* detector, else specialist routing
_handle_with_conversational_intelligence(user_message, session, invoke_raises) ==
    LET user_context == DictGet(session, "user_context", <<>>)
        detector == MessageAnalysis[user_message].detector
    IN IF detector # "none"
       THEN [kind |-> detector, invoked |-> FALSE, thread_id |-> "None"]
       ELSE _route_to_specialized_agent(user_message, user_context, session,
                                        invoke_raises)

RECURSIVE SumOver(_, _)
SumOver(S, f) ==
    IF S = {} THEN 0
    ELSE LET x == CHOOSE y \in S : TRUE IN f[x] + SumOver(S \ {x}, f)

\* number of process_message calls made so far (two history entries each)
ChatCount ==
    SumOver(DOMAIN user_sessions,
            [t \in DOMAIN user_sessions |->
                Len(user_sessions[t].conversation_history)]) \div 2

\* process_message(user_message, user_context, thread_id)
ProcessMessage(user_message, user_context, thread_id, invoke_raises) ==
    /\ ChatCount < MaxChat
    /\ LET sessions1 ==
               IF thread_id \notin DOMAIN user_sessions
               THEN [t \in DOMAIN user_sessions \cup {thread_id} |->
                        IF t = thread_id THEN NewSession(user_context)
                        ELSE user_sessions[t]]
               ELSE user_sessions
           session1 == [sessions1[thread_id] EXCEPT
                          !.user_context = DictUpdate(@, user_context),
                          !.conversation_history =
                              Append(@, [message_type |-> "user", text |-> user_message])]
           r == _handle_with_conversational_intelligence(user_message, session1,
                                                         invoke_raises)
           session2 == [session1 EXCEPT
                          !.conversation_history =
                              Append(@, [message_type |-> "assistant", text |-> r.kind])]
       IN /\ user_sessions' = [sessions1 EXCEPT ![thread_id] = session2]
          /\ swarm_calls' =
                IF r.invoked
                THEN Append(swarm_calls,
                            [message |-> user_message,
                             user_role |-> DictGet(session1.user_context, "user_role", "None"),
                             caller_thread |-> thread_id,
                             thread_id |-> r.thread_id])
                ELSE swarm_calls
          /\ chat_reply' =
                [kind |-> r.kind, message |-> user_message, thread_id |-> thread_id,
                 user_role |-> DictGet(session1.user_context, "user_role", "None"),
                 invoked |-> r.invoked]
    /\ UNCHANGED <<is_initialized, swarm_app>>
    /\ UNCHANGED <<supVars, leaveVars, webVars>>

\* HRSwarmSystem.__init__: either the swarm compiled, or fallback mode
InitSwarm ==
    /\ \/ is_initialized = TRUE /\ swarm_app = "compiled"
       \/ is_initialized = FALSE /\ swarm_app = "None"
    /\ user_sessions = <<>>
    /\ swarm_calls = <<>>
    /\ chat_reply = NoReply
    /\ SupIdle
    /\ LeaveIdle
    /\ WebIdle

NextSwarm ==
    \E m \in ChatMessages, c \in UserContexts, t \in ThreadIds, x \in BOOLEAN :
        ProcessMessage(m, c, t, x)

SpecSwarm == InitSwarm /\ [][NextSwarm]_vars

-----------------------------------------------------------------------------
(* backend/tools/database_tools.py: accessors of the employees collection *)

\* a history entry: the seed data holds date strings, $push of a list adds
\* the list as one entry
DateEntry(d) == [entry_type |-> "str", value |-> <<d>>]

ListEntry(dates) == [entry_type |-> "list", value |-> dates]

NoDocument == [name |-> "None", balance |-> 0, history |-> <<>>]

\* get_employee_by_id; raises: the driver call find_one raises
get_employee_by_id(employee_id, raises) ==
    IF employees_collection = "None"
    THEN [success |-> FALSE, message |-> "Database connection error", data |-> NoDocument]
    ELSE IF raises
    THEN [success |-> FALSE, message |-> "Database error", data |-> NoDocument]
    ELSE IF employee_id \in DOMAIN employees
    THEN [success |-> TRUE, message |-> "Found employee", data |-> employees[employee_id]]
    ELSE [success |-> FALSE, message |-> "Employee not found", data |-> NoDocument]

\* update_employee_leave_balance on collection docs: the result and the
\* collection after the call; raises: the driver call update_one raises
update_employee_leave_balance(docs, employee_id, new_balance, raises) ==
    IF employees_collection = "None"
    THEN [success |-> FALSE, message |-> "Database connection error", docs |-> docs]
    ELSE IF raises
    THEN [success |-> FALSE, message |-> "Database error", docs |-> docs]
    ELSE IF employee_id \in DOMAIN docs
    THEN [success |-> TRUE, message |-> "Updated leave balance",
          docs |-> [docs EXCEPT ![employee_id].balance = new_balance]]
    ELSE [success |-> FALSE, message |-> "Employee not found", docs |-> docs]

\* `"date" not in leave_entry` when leave_entry is the list of dates
DateKeyMissing(leave_entry) == \A i \in 1..Len(leave_entry) : leave_entry[i] # "date"

\* add_leave_history called with the list of dates as leave_entry: when
\* "date" is not an element, leave_entry["date"] = ... raises TypeError (list
\* index), caught by the function's except; otherwise the list is pushed as
\* one history entry
add_leave_history(docs, employee_id, leave_entry, raises) ==
    IF employees_collection = "None"
    THEN [success |-> FALSE, message |-> "Database connection error", docs |-> docs]
    ELSE IF DateKeyMissing(leave_entry)
    THEN [success |-> FALSE, message |-> "Database error", docs |-> docs]
    ELSE IF raises
    THEN [success |-> FALSE, message |-> "Database error", docs |-> docs]
    ELSE IF employee_id \in DOMAIN docs
    THEN [success |-> TRUE, message |-> "Added leave entry",
          docs |-> [docs EXCEPT ![employee_id].history = Append(@, ListEntry(leave_entry))]]
    ELSE [success |-> FALSE, message |-> "Employee not found", docs |-> docs]

-----------------------------------------------------------------------------
(* backend/agents/leave_agent.py: LeaveAgent tools *)

\* the result of a tool as far as it matters: its outcome, the balance and
\* history its text shows, and the collection after the call
ToolResult(outcome, shown_balance, shown_history, docs) ==
    [outcome |-> outcome, shown_balance |-> shown_balance,
     shown_history |-> shown_history, docs |-> docs]

check_leave_balance_tool(employee_id, fault) ==
    LET result == get_employee_by_id(employee_id, fault = "find") IN
    IF ~result.success
    THEN ToolResult("error_lookup", {}, {}, employees)
    ELSE ToolResult("balance", {result.data.balance}, {}, employees)

get_leave_history_tool(employee_id, fault) ==
    LET result == get_employee_by_id(employee_id, fault = "find") IN
    IF ~result.success
    THEN ToolResult("error_lookup", {}, {}, employees)
    ELSE IF result.data.history = <<>>
    THEN ToolResult("no_records", {}, {<<>>}, employees)
    ELSE ToolResult("history", {}, {result.data.history}, employees)

\* variant: the `current_balance < requested_days` test is missing
apply_for_leave_tool_no_balance_check(employee_id, leave_dates, fault) ==
    LET result == get_employee_by_id(employee_id, fault = "find") IN
    IF ~result.success
    THEN ToolResult("error_lookup", {}, {}, employees)
    ELSE
    LET current_balance == result.data.balance
        requested_days == Len(leave_dates)
        new_balance == current_balance - requested_days
    IN
    IF leave_dates = <<>>
    THEN ToolResult("no_dates", {}, {}, employees)
    ELSE
    LET balance_result ==
            update_employee_leave_balance(employees, employee_id, new_balance,
                                          fault = "update")
    IN
    IF ~balance_result.success
    THEN ToolResult("error_updating_balance", {}, {}, balance_result.docs)
    ELSE
    LET history_result ==
            add_leave_history(balance_result.docs, employee_id, leave_dates,
                              fault = "push")
    IN
    IF ~history_result.success
    THEN ToolResult("error_updating_history", {}, {}, history_result.docs)
    ELSE ToolResult("approved", {new_balance}, {}, history_result.docs)

apply_for_leave_tool(employee_id, leave_dates, fault) ==
    LET result == get_employee_by_id(employee_id, fault = "find") IN
    IF ~result.success
    THEN ToolResult("error_lookup", {}, {}, employees)
    ELSE
    LET current_balance == result.data.balance
        requested_days == Len(leave_dates)
        new_balance == current_balance - requested_days
    IN
    IF leave_dates = <<>>
    THEN ToolResult("no_dates", {}, {}, employees)
    ELSE IF current_balance < requested_days
    THEN ToolResult("insufficient_balance", {current_balance}, {}, employees)
    ELSE
    LET balance_result ==
            update_employee_leave_balance(employees, employee_id, new_balance,
                                          fault = "update")
    IN
    IF ~balance_result.success
    THEN ToolResult("error_updating_balance", {}, {}, balance_result.docs)
    ELSE
    LET history_result ==
            add_leave_history(balance_result.docs, employee_id, leave_dates,
                              fault = "push")
    IN
    IF ~history_result.success
    THEN ToolResult("error_updating_history", {}, {}, history_result.docs)
    ELSE ToolResult("approved", {new_balance}, {}, history_result.docs)

\* the users on whose behalf the leave agent runs a tool
Callers ==
    {[user_id |-> "E001", user_role |-> "HR"],
     [user_id |-> "E003", user_role |-> "Employee"]}

\* employee ids a tool is called with: two stored employees, one unknown
RequestedIds == {"E003", "E004", "E999"}

\* leave_dates arguments
DateLists ==
    {<<>>, <<"2026-01-05">>, <<"2026-01-05", "2026-01-06">>, <<"date">>}

\* which driver call of the tool raises, if any
Faults == {"none", "find", "update", "push"}

\* one tool call: the reply records the caller, the arguments, what the text
\* shows and whether the collection was written
RunTool(tool, caller, employee_id, leave_dates, r) ==
    /\ employees' = r.docs
    /\ leave_reply' =
          [tool |-> tool, caller_id |-> caller.user_id,
           caller_role |-> caller.user_role, employee_id |-> employee_id,
           leave_dates |-> leave_dates, outcome |-> r.outcome, shown_balance |-> r.shown_balance,
           shown_history |-> r.shown_history, wrote |-> (r.docs # employees)]
    /\ UNCHANGED <<employees_collection, apply_calls, employees_at_start>>
    /\ UNCHANGED <<supVars, swarmVars, webVars>>

CheckLeaveBalanceTool(caller, employee_id, fault) ==
    RunTool("check_leave_balance_tool", caller, employee_id, <<>>,
            check_leave_balance_tool(employee_id, fault))

GetLeaveHistoryTool(caller, employee_id, fault) ==
    RunTool("get_leave_history_tool", caller, employee_id, <<>>,
            get_leave_history_tool(employee_id, fault))

ApplyForLeaveTool(caller, employee_id, leave_dates, fault) ==
    RunTool("apply_for_leave_tool", caller, employee_id, leave_dates,
            apply_for_leave_tool(employee_id, leave_dates, fault))

\* the seeded collection: E003 has taken leave before, E004 has not
InitLeave ==
    /\ employees_collection \in {"connected", "None"}
    /\ \E b3 \in 0..MaxBalance, b4 \in 0..MaxBalance :
          employees =
             [e \in {"E003", "E004"} |->
                 IF e = "E003"
                 THEN [name |-> "Employee Three", balance |-> b3,
                       history |-> <<DateEntry("2025-02-14")>>]
                 ELSE [name |-> "Employee Four", balance |-> b4, history |-> <<>>]]
    /\ leave_reply = NoLeaveReply
    /\ apply_calls = <<>>
    /\ employees_at_start = <<>>
    /\ SupIdle
    /\ SwarmIdle
    /\ WebIdle

NextLeave ==
    \/ \E c \in Callers, e \in RequestedIds, f \in Faults :
          CheckLeaveBalanceTool(c, e, f)
    \/ \E c \in Callers, e \in RequestedIds, f \in Faults :
          GetLeaveHistoryTool(c, e, f)
    \/ \E c \in Callers, e \in RequestedIds, d \in DateLists, f \in Faults :
          ApplyForLeaveTool(c, e, d, f)

SpecLeave == InitLeave /\ [][NextLeave]_vars

-----------------------------------------------------------------------------
(* Two apply_for_leave_tool calls for one employee running interleaved: each
   database call is one step, the locals of a call are kept between steps *)

ApplyCalls == {"call-1", "call-2"}

\* a call that returns: its locals no longer matter
Returned(call, outcome) ==
    [apply_calls EXCEPT ![call].pc = "done", ![call].outcome = outcome]

\* leave_agent.py 140-160: get_employee_by_id, then the tests on the values read
ApplyRead(call) ==
    LET c == apply_calls[call]
        result == get_employee_by_id(c.employee_id, FALSE)
    IN
    /\ c.pc = "start"
    /\ apply_calls' =
         IF ~result.success THEN Returned(call, "error_lookup")
         ELSE IF c.leave_dates = <<>> THEN Returned(call, "no_dates")
         ELSE IF result.data.balance < Len(c.leave_dates)
         THEN Returned(call, "insufficient_balance")
         ELSE [apply_calls EXCEPT ![call].pc = "update_balance",
                                  ![call].current_balance = result.data.balance,
                                  ![call].passed_check = TRUE]
    /\ UNCHANGED <<employees_collection, employees, leave_reply, employees_at_start>>
    /\ UNCHANGED <<supVars, swarmVars, webVars>>

\* leave_agent.py 163-168: new_balance from the balance read earlier, stored
ApplyUpdateBalance(call) ==
    LET c == apply_calls[call]
        new_balance == c.current_balance - Len(c.leave_dates)
        balance_result ==
            update_employee_leave_balance(employees, c.employee_id, new_balance, FALSE)
    IN
    /\ c.pc = "update_balance"
    /\ employees' = balance_result.docs
    /\ apply_calls' =
         IF ~balance_result.success THEN Returned(call, "error_updating_balance")
         ELSE [apply_calls EXCEPT ![call].pc = "add_history"]
    /\ UNCHANGED <<employees_collection, leave_reply, employees_at_start>>
    /\ UNCHANGED <<supVars, swarmVars, webVars>>

\* leave_agent.py 171-184: add_leave_history, then the approval text
ApplyAddHistory(call) ==
    LET c == apply_calls[call]
        history_result == add_leave_history(employees, c.employee_id, c.leave_dates, FALSE)
    IN
    /\ c.pc = "add_history"
    /\ employees' = history_result.docs
    /\ apply_calls' =
         IF ~history_result.success THEN Returned(call, "error_updating_history")
         ELSE Returned(call, "approved")
    /\ UNCHANGED <<employees_collection, leave_reply, employees_at_start>>
    /\ UNCHANGED <<supVars, swarmVars, webVars>>

\* both calls are for E003, the collection is connected
InitConcurrentLeave ==
    /\ employees_collection = "connected"
    /\ \E b3 \in 0..MaxBalance :
          employees =
             [e \in {"E003", "E004"} |->
                 IF e = "E003"
                 THEN [name |-> "Employee Three", balance |-> b3,
                       history |-> <<DateEntry("2025-02-14")>>]
                 ELSE [name |-> "Employee Four", balance |-> 0, history |-> <<>>]]
    /\ employees_at_start = employees
    /\ \E d1 \in DateLists, d2 \in DateLists :
          apply_calls =
             [call \in ApplyCalls |->
                 [pc |-> "start", employee_id |-> "E003",
                  leave_dates |-> IF call = "call-1" THEN d1 ELSE d2,
                  current_balance |-> 0, passed_check |-> FALSE,
                  outcome |-> "none"]]
    /\ leave_reply = NoLeaveReply
    /\ SupIdle
    /\ SwarmIdle
    /\ WebIdle

NextConcurrentLeave ==
    \E call \in ApplyCalls :
        \/ ApplyRead(call)
        \/ ApplyUpdateBalance(call)
        \/ ApplyAddHistory(call)

SpecConcurrentLeave == InitConcurrentLeave /\ [][NextConcurrentLeave]_vars

-----------------------------------------------------------------------------
(* backend/web_server.py: sessions *)

\* timedelta(hours=24) in units of the clock
Day == 2

\* uuid4 values in the order in which create_user_session draws them; a
\* value is never drawn twice
SessionOrder == <<"uuid-1", "uuid-2">>

\* the fields of a session that the session operations read or write again
\* after create_user_session: user_data and created_at are written once
NoSession ==
    [user_id |-> "None", last_activity |-> 0, conversation_count |-> 0]

create_user_session(sessions, session_id, user_id, t) ==
    [sid \in DOMAIN sessions \cup {session_id} |->
        IF sid = session_id
        THEN [user_id |-> user_id, last_activity |-> t, conversation_count |-> 0]
        ELSE sessions[sid]]

update_session_activity(sessions, session_id, t) ==
    IF session_id \in DOMAIN sessions
    THEN [sessions EXCEPT ![session_id].last_activity = t,
                          ![session_id].conversation_count = @ + 1]
    ELSE sessions

\* active_sessions.get(session_id); NoSession stands for None
get_session_context(sessions, session_id) ==
    IF session_id \in DOMAIN sessions THEN sessions[session_id] ELSE NoSession

\* the filter of cleanup_old_sessions
session_expired(session, cutoff_time) == session.last_activity < cutoff_time

\* sessions_to_remove: a list, in the order of the dict (insertion order)
sessions_to_remove(sessions, cutoff_time) ==
    SelectSeq(SessionOrder,
              LAMBDA sid : /\ sid \in DOMAIN sessions
                           /\ session_expired(sessions[sid], cutoff_time))

\* variant: the endpoint accepts every token
session_is_active_any(sessions, session_id) == TRUE

\* enhanced_chat, line 603: the test that must pass before anything is done
session_is_active(sessions, session_id) == session_id \in DOMAIN sessions

-----------------------------------------------------------------------------
(* backend/web_server.py: requests and the cleanup thread, one step per
   access to active_sessions *)

WebUsers == {"E003"}

ChatThreads == {"chat-1"}

\* cleanup_task's thread, and a request thread of /api/health
CleanupCallers == {"background", "request"}

\* request bodies: the "message" field
WebMessages == {"  ", "check my balance"}

IdleChat == [pc |-> "idle", session_id |-> "None", message |-> ""]

IdleCleanup ==
    [pc |-> "idle", cutoff_time |-> 0, seen_size |-> 0, sessions_to_remove |-> <<>>,
     outcome |-> "none", alone |-> TRUE]

\* a step of another thread has run while a cleanup call was in progress
Interleave(self) ==
    [c \in DOMAIN cleanup_calls |->
        IF c # self /\ cleanup_calls[c].pc # "idle"
        THEN [cleanup_calls[c] EXCEPT !.alone = FALSE]
        ELSE cleanup_calls[c]]

Response(endpoint, session_id, status, message) ==
    [endpoint |-> endpoint, session_id |-> session_id, status |-> status,
     message |-> message]

\* time passes
Tick ==
    /\ now < MaxTime
    /\ now' = now + 1
    /\ cleanup_calls' = Interleave("clock")
    /\ UNCHANGED <<active_sessions, issued_sessions, chat_calls,
                   messages_processed, web_reply>>
    /\ UNCHANGED <<supVars, swarmVars, leaveVars>>

\* login / legacy_login with valid credentials: create_user_session
Login(user_id) ==
    /\ \E i \in 1..Len(SessionOrder) :
          /\ SessionOrder[i] \notin issued_sessions
          /\ \A j \in 1..(i - 1) : SessionOrder[j] \in issued_sessions
          /\ LET session_id == SessionOrder[i] IN
               /\ active_sessions' =
                     create_user_session(active_sessions, session_id, user_id, now)
               /\ issued_sessions' = issued_sessions \cup {session_id}
               /\ messages_processed' =
                     [sid \in DOMAIN messages_processed \cup {session_id} |->
                         IF sid = session_id THEN 0 ELSE messages_processed[sid]]
               /\ web_reply' = Response("login", session_id, 200, "Welcome")
    /\ cleanup_calls' = Interleave("login")
    /\ UNCHANGED <<now, chat_calls>>
    /\ UNCHANGED <<supVars, swarmVars, leaveVars>>

\* enhanced_chat, lines 598-607: the session test
ChatCheck(thread, session_id, message) ==
    /\ chat_calls[thread].pc = "idle"
    /\ session_id \in issued_sessions
    /\ session_id \in DOMAIN active_sessions
          => active_sessions[session_id].conversation_count < MaxCount
    /\ IF ~session_is_active(active_sessions, session_id)
       THEN /\ web_reply' = Response("chat", session_id, 401,
                                     "Invalid session. Please log in again.")
            /\ UNCHANGED chat_calls
       ELSE /\ chat_calls' = [chat_calls EXCEPT ![thread] =
                                [pc |-> "update", session_id |-> session_id,
                                 message |-> message]]
            /\ UNCHANGED web_reply
    /\ cleanup_calls' = Interleave(thread)
    /\ UNCHANGED <<now, active_sessions, issued_sessions, messages_processed>>
    /\ UNCHANGED <<supVars, swarmVars, leaveVars>>

\* enhanced_chat, line 610: update_session_activity
ChatUpdateActivity(thread) ==
    LET c == chat_calls[thread] IN
    /\ c.pc = "update"
    /\ active_sessions' = update_session_activity(active_sessions, c.session_id, now)
    /\ chat_calls' = [chat_calls EXCEPT ![thread].pc = "process"]
    /\ cleanup_calls' = Interleave(thread)
    /\ UNCHANGED <<now, issued_sessions, messages_processed, web_reply>>
    /\ UNCHANGED <<supVars, swarmVars, leaveVars>>

\* enhanced_chat, lines 613-672: get_session_context (None makes the
\* subscript raise TypeError, answered 500), the empty-message test, then the
\* swarm or the fallback responder, save_conversation_to_db and the answer
ChatProcess(thread) ==
    LET c == chat_calls[thread]
        session_context == get_session_context(active_sessions, c.session_id)
    IN
    /\ c.pc = "process"
    /\ IF session_context = NoSession
       THEN /\ web_reply' = Response("chat", c.session_id, 500,
                                     "I'm experiencing a technical hiccup")
            /\ UNCHANGED messages_processed
       ELSE IF Strip(c.message) = ""
       THEN /\ web_reply' = Response("chat", c.session_id, 400,
                                     "Message cannot be empty")
            /\ UNCHANGED messages_processed
       ELSE /\ web_reply' = Response("chat", c.session_id, 200, "response")
            /\ messages_processed' =
                  [messages_processed EXCEPT ![c.session_id] = @ + 1]
    /\ chat_calls' = [chat_calls EXCEPT ![thread] = IdleChat]
    /\ cleanup_calls' = Interleave(thread)
    /\ UNCHANGED <<now, active_sessions, issued_sessions>>
    /\ UNCHANGED <<supVars, swarmVars, leaveVars>>

\* reset_user_session
ResetUserSession(session_id) ==
    /\ session_id \in issued_sessions
    /\ IF session_id \in DOMAIN active_sessions
       THEN /\ active_sessions' =
                  [active_sessions EXCEPT ![session_id].conversation_count = 0,
                                          ![session_id].last_activity = now]
            /\ messages_processed' = [messages_processed EXCEPT ![session_id] = 0]
            /\ web_reply' = Response("reset", session_id, 200,
                                     "Session reset successfully")
       ELSE /\ web_reply' = Response("reset", session_id, 404, "Session not found")
            /\ UNCHANGED <<active_sessions, messages_processed>>
    /\ cleanup_calls' = Interleave("reset")
    /\ UNCHANGED <<now, issued_sessions, chat_calls>>
    /\ UNCHANGED <<supVars, swarmVars, leaveVars>>

\* a cleanup call that has ended: with "ok", or with the exception it raised
Ended(caller, outcome) ==
    [IdleCleanup EXCEPT !.outcome = outcome]

\* what the caller does with the end of its cleanup call: the background
\* thread logs, a request is answered (an exception raised before the
\* handler's try block is answered 500)
CleanupAnswer(caller, outcome) ==
    IF caller = "request"
    THEN web_reply' = Response("health", "None", IF outcome = "ok" THEN 200 ELSE 500,
                               outcome)
    ELSE UNCHANGED web_reply

\* cleanup_old_sessions, lines 142-144: cutoff_time, and the iteration over
\* active_sessions.items() begins
CleanupBegin(caller) ==
    /\ cleanup_calls[caller].pc = "idle"
    /\ cleanup_calls' =
         [Interleave(caller) EXCEPT ![caller] =
            [pc |-> "scanning", cutoff_time |-> now - Day,
             seen_size |-> Cardinality(DOMAIN active_sessions),
             sessions_to_remove |-> <<>>, outcome |-> "none", alone |-> TRUE]]
    /\ UNCHANGED <<now, active_sessions, issued_sessions, chat_calls,
                   messages_processed, web_reply>>
    /\ UNCHANGED <<supVars, swarmVars, leaveVars>>

\* cleanup_old_sessions, lines 143-146: the iteration ends; the dict
\* iterator raises RuntimeError when the size of the dict has changed
CleanupScan(caller) ==
    LET c == cleanup_calls[caller]
        found == sessions_to_remove(active_sessions, c.cutoff_time)
        outcome == IF Cardinality(DOMAIN active_sessions) # c.seen_size
                   THEN "RuntimeError"
                   ELSE IF found = <<>> THEN "ok" ELSE "none"
    IN
    /\ c.pc = "scanning"
    /\ IF outcome = "none"
       THEN /\ cleanup_calls' =
                 [Interleave(caller) EXCEPT ![caller].pc = "deleting",
                                            ![caller].sessions_to_remove = found]
            /\ UNCHANGED web_reply
       ELSE /\ cleanup_calls' =
                 [Interleave(caller) EXCEPT ![caller] = Ended(caller, outcome)]
            /\ CleanupAnswer(caller, outcome)
    /\ UNCHANGED <<now, active_sessions, issued_sessions, chat_calls, messages_processed>>
    /\ UNCHANGED <<supVars, swarmVars, leaveVars>>

\* cleanup_old_sessions, lines 147-148: one `del active_sessions[sid]`;
\* KeyError when the key is no longer there
CleanupDelete(caller) ==
    LET c == cleanup_calls[caller]
        sid == Head(c.sessions_to_remove)
        rest == Tail(c.sessions_to_remove)
        outcome == IF sid \notin DOMAIN active_sessions THEN "KeyError"
                   ELSE IF rest = <<>> THEN "ok" ELSE "none"
    IN
    /\ c.pc = "deleting"
    /\ active_sessions' =
          [s \in DOMAIN active_sessions \ {sid} |-> active_sessions[s]]
    /\ IF outcome = "none"
       THEN /\ cleanup_calls' =
                 [Interleave(caller) EXCEPT ![caller].sessions_to_remove = rest]
            /\ UNCHANGED web_reply
       ELSE /\ cleanup_calls' =
                 [Interleave(caller) EXCEPT ![caller] = Ended(caller, outcome)]
            /\ CleanupAnswer(caller, outcome)
    /\ UNCHANGED <<now, issued_sessions, chat_calls, messages_processed>>
    /\ UNCHANGED <<supVars, swarmVars, leaveVars>>

\* the server after start-up, with the given cleanup callers
InitSessions(callers) ==
    /\ now = 0
    /\ active_sessions = <<>>
    /\ issued_sessions = {}
    /\ chat_calls = [thread \in ChatThreads |-> IdleChat]
    /\ cleanup_calls = [caller \in callers |-> IdleCleanup]
    /\ messages_processed = <<>>
    /\ web_reply = NoWebReply
    /\ SupIdle
    /\ SwarmIdle
    /\ LeaveIdle

\* logins, chat requests, resets and the cleanup thread
InitWeb == InitSessions({"background"})

NextWeb ==
    \/ Tick
    \/ \E user_id \in WebUsers : Login(user_id)
    \/ \E thread \in ChatThreads, session_id \in issued_sessions,
          message \in WebMessages : ChatCheck(thread, session_id, message)
    \/ \E thread \in ChatThreads : ChatUpdateActivity(thread)
    \/ \E thread \in ChatThreads : ChatProcess(thread)
    \/ \E session_id \in issued_sessions : ResetUserSession(session_id)
    \/ \E caller \in DOMAIN cleanup_calls : CleanupBegin(caller)
    \/ \E caller \in DOMAIN cleanup_calls : CleanupScan(caller)
    \/ \E caller \in DOMAIN cleanup_calls : CleanupDelete(caller)

SpecWeb == InitWeb /\ [][NextWeb]_vars

\* logins, the cleanup thread and the cleanup call of a request thread
InitCleanup == InitSessions(CleanupCallers)

NextCleanup ==
    \/ Tick
    \/ \E user_id \in WebUsers : Login(user_id)
    \/ \E caller \in DOMAIN cleanup_calls : CleanupBegin(caller)
    \/ \E caller \in DOMAIN cleanup_calls : CleanupScan(caller)
    \/ \E caller \in DOMAIN cleanup_calls : CleanupDelete(caller)

SpecCleanup == InitCleanup /\ [][NextCleanup]_vars

-----------------------------------------------------------------------------
(* backend/web_server.py: get_fallback_conversational_response *)

\* the word lists of the branches, in the order of the code
fallback_greeting_words ==
    {"hi", "hello", "hey", "good morning", "good afternoon", "good evening"}

fallback_gratitude_words == {"thank", "thanks", "appreciate"}

fallback_leave_words == {"leave", "vacation", "balance", "time off", "holiday"}

fallback_search_words == {"find", "employee", "contact", "who is", "directory"}

fallback_help_words == {"help", "assist", "support", "what can you do"}

\* chat messages sent while the server runs in fallback mode
FallbackMessages ==
    {"show my history", "show my leave history", "Leave History",
     "my vacation record", "what is my leave balance", "hello",
     "thanks a lot", "find an employee", "help", "good day"}

\* the `in` tests of the function on message.lower().strip(), evaluated
\* once per message
FallbackTests ==
    [message \in FallbackMessages |->
        LET message_lower == Strip(Lower(message)) IN
        [greeting |-> ContainsAny(fallback_greeting_words, message_lower),
         gratitude |-> ContainsAny(fallback_gratitude_words, message_lower),
         leave |-> ContainsAny(fallback_leave_words, message_lower),
         balance |-> Contains("balance", message_lower),
         history |-> Contains("history", message_lower),
         search |-> ContainsAny(fallback_search_words, message_lower),
         help |-> ContainsAny(fallback_help_words, message_lower)]]

\* ", ".join(recent_leaves) raises TypeError unless every entry is a string
JoinRaises(history) == \E i \in 1..Len(history) : history[i].entry_type # "str"

\* the branch of get_fallback_conversational_response that answers
get_fallback_conversational_response(message, user_context, raises) ==
    LET t == FallbackTests[message] IN
    IF t.greeting THEN "greeting"
    ELSE IF t.gratitude THEN "gratitude"
    ELSE IF t.leave
    THEN LET employee_data ==
                 get_employee_by_id(DictGet(user_context, "employee_id",
                                            DictGet(user_context, "user_id", "None")),
                                    raises)
         IN IF employee_data.success
            THEN IF t.balance THEN "leave_balance"
                 ELSE IF t.history
                 THEN IF employee_data.data.history # <<>>
                      THEN IF JoinRaises(employee_data.data.history)
                           THEN "leave_technical_issue"
                           ELSE "leave_history"
                      ELSE "no_leave_taken_yet"
                 ELSE "leave_general"
            ELSE "leave_no_data"
    ELSE IF t.search THEN "employee_search"
    ELSE IF t.help
    THEN IF Upper(DictGet(user_context, "user_role", "Employee")) = "HR"
         THEN "help_hr" ELSE "help_employee"
    ELSE "general"

\* the user_data of the sessions of the test users
FallbackUsers ==
    {[user_id |-> "E001", user_name |-> "Kalhar Dasanayaka", user_role |-> "HR",
      employee_id |-> "E001"],
     [user_id |-> "E003", user_name |-> "Ravindu Cooray", user_role |-> "Employee",
      employee_id |-> "E003"],
     [user_id |-> "E004", user_name |-> "Employee Four", user_role |-> "Employee",
      employee_id |-> "E004"]}

\* enhanced_chat, lines 644-646: the swarm is not available and the message
\* is answered by get_fallback_conversational_response
FallbackChat(message, user_context, raises) ==
    /\ chat_reply' =
          [kind |-> get_fallback_conversational_response(message, user_context, raises),
           message |-> message, thread_id |-> user_context.user_id,
           user_role |-> user_context.user_role, invoked |-> FALSE]
    /\ UNCHANGED <<is_initialized, swarm_app, user_sessions, swarm_calls>>
    /\ UNCHANGED <<supVars, leaveVars, webVars>>

\* fallback mode: no swarm system; the seeded employees collection
InitFallback ==
    /\ InitLeave
    /\ chat_reply = NoReply

NextFallback ==
    \E message \in FallbackMessages, user_context \in FallbackUsers, raises \in BOOLEAN :
        FallbackChat(message, user_context, raises)

SpecFallback == InitFallback /\ [][NextFallback]_vars

-----------------------------------------------------------------------------
(* Supervisor actions *)

\* check_authorization applied to a (role, task type) pair
CheckAuthorization ==
    /\ sup_pc \in {"auth", "routed"}
    /\ LET r == check_authorization(user_role, task_type) IN
         /\ authorized' = r.allowed
         /\ denial_reason' = r.reason
    /\ sup_pc' = "done"
    /\ UNCHANGED <<user_query, user_role, task_type, target_agent, query_intent>>
    /\ UNCHANGED <<swarmVars, leaveVars, webVars>>

\* analyze_task_type applied to the query
AnalyzeTaskType ==
    /\ sup_pc = "start"
    /\ task_type' = analyze_task_type(user_query)
    /\ sup_pc' = "analyzed"
    /\ UNCHANGED <<user_query, user_role, target_agent, authorized, denial_reason,
                   query_intent>>
    /\ UNCHANGED <<swarmVars, leaveVars, webVars>>

\* determine_target_agent applied to the task type
DetermineTargetAgent ==
    /\ sup_pc = "analyzed"
    /\ target_agent' = determine_target_agent(task_type)
    /\ sup_pc' = "routed"
    /\ UNCHANGED <<user_query, user_role, task_type, authorized, denial_reason,
                   query_intent>>
    /\ UNCHANGED <<swarmVars, leaveVars, webVars>>

-----------------------------------------------------------------------------
(* Specification of the authorization gate alone *)

InitAuth ==
    /\ sup_pc = "auth"
    /\ user_query = ""
    /\ user_role \in RoleStrings
    /\ task_type \in TaskTypeInputs
    /\ target_agent = ""
    /\ authorized = TRUE
    /\ denial_reason = ""
    /\ query_intent = NoIntent
    /\ SwarmIdle
    /\ LeaveIdle
    /\ WebIdle

NextAuth == CheckAuthorization

SpecAuth == InitAuth /\ [][NextAuth]_vars

(* Specification of classify -> lookup -> authorize on one query *)

RouteRoles == {"HR", "Employee"}

InitRoute ==
    /\ sup_pc = "start"
    /\ user_query \in Queries
    /\ user_role \in RouteRoles
    /\ task_type = ""
    /\ target_agent = ""
    /\ authorized = TRUE
    /\ denial_reason = ""
    /\ query_intent = NoIntent
    /\ SwarmIdle
    /\ LeaveIdle
    /\ WebIdle

NextRoute ==
    \/ AnalyzeTaskType
    \/ DetermineTargetAgent
    \/ CheckAuthorization

SpecRoute == InitRoute /\ [][NextRoute]_vars

(* Specification of lookup -> authorize on one task type *)

\* task_type is a plain str: the categories, the HRAgentState default "" and
\* strings that are not values of TaskType
LookupInputs == TaskTypeInputs \cup {"", "LEAVE_BALANCE", "LeaveBalance"}

InitLookup ==
    /\ sup_pc = "analyzed"
    /\ user_query = ""
    /\ user_role \in RoleStrings
    /\ task_type \in LookupInputs
    /\ target_agent = ""
    /\ authorized = TRUE
    /\ denial_reason = ""
    /\ query_intent = NoIntent
    /\ SwarmIdle
    /\ LeaveIdle
    /\ WebIdle

NextLookup ==
    \/ DetermineTargetAgent
    \/ CheckAuthorization

SpecLookup == InitLookup /\ [][NextLookup]_vars

(* Specification of SupervisorTaskRouter on one query *)

\* analyze_query_intent applied to the query
AnalyzeQueryIntent ==
    /\ sup_pc = "router_start"
    /\ query_intent' = analyze_query_intent(user_query, user_role)
    /\ sup_pc' = "router_analyzed"
    /\ UNCHANGED <<user_query, user_role, task_type, target_agent,
                   authorized, denial_reason>>
    /\ UNCHANGED <<swarmVars, leaveVars, webVars>>

\* SupervisorTaskRouter.check_authorization applied to the role, an agent
\* name and the query
RouterCheckAuthorization(agent) ==
    /\ sup_pc = "router_analyzed"
    /\ target_agent' = agent
    /\ LET r == router_check_authorization(user_role, agent, user_query) IN
         /\ authorized' = r.allowed
         /\ denial_reason' = r.reason
    /\ sup_pc' = "router_done"
    /\ UNCHANGED <<user_query, user_role, task_type, query_intent>>
    /\ UNCHANGED <<swarmVars, leaveVars, webVars>>

InitRouter ==
    /\ sup_pc = "router_start"
    /\ user_query \in Queries
    /\ user_role \in RouteRoles
    /\ task_type = ""
    /\ target_agent = ""
    /\ authorized = TRUE
    /\ denial_reason = ""
    /\ query_intent = NoIntent
    /\ SwarmIdle
    /\ LeaveIdle
    /\ WebIdle

NextRouter ==
    \/ AnalyzeQueryIntent
    \/ \E agent \in AgentNames : RouterCheckAuthorization(agent)

SpecRouter == InitRouter /\ [][NextRouter]_vars

-----------------------------------------------------------------------------
(* Properties of the authorization gate (checked under SpecAuth) *)

\* C1: check_authorization never treats an unrecognized role as HR: for a
\* role whose upper-cased form is neither "HR" nor "EMPLOYEE" and a
\* restricted category (EmployeeOverview, DepartmentStats, Reporting,
\* Analytics) the decision is allowed = false.
C1_UnknownRoleDenied ==
    ( /\ sup_pc = "done"
      /\ Upper(user_role) \notin {"HR", "EMPLOYEE"}
      /\ task_type \in {EMPLOYEE_OVERVIEW, DEPARTMENT_STATS, REPORTING, ANALYTICS} )
    => authorized = FALSE

\* C2: for role Employee the gate denies, with the restricted-to-HR message,
\* exactly the categories EmployeeOverview, DepartmentStats, Reporting,
\* Analytics, and returns (true, "") for LeaveBalance, LeaveApplication,
\* LeaveHistory, EmployeeSearch and GeneralQuery.
C2_EmployeeDecisionTable ==
    (sup_pc = "done" /\ user_role = "Employee") =>
        /\ task_type \in {EMPLOYEE_OVERVIEW, DEPARTMENT_STATS, REPORTING, ANALYTICS}
             => /\ authorized = FALSE
                /\ denial_reason = "You don't have permission to access this information. This feature is restricted to HR personnel."
        /\ task_type \in {LEAVE_BALANCE, LEAVE_APPLICATION, LEAVE_HISTORY,
                          EMPLOYEE_SEARCH, GENERAL_QUERY}
             => /\ authorized = TRUE
                /\ denial_reason = ""

C2_Witness ==
    /\ sup_pc = "done"
    /\ user_role = "Employee"
    /\ task_type = DEPARTMENT_STATS
    /\ authorized = FALSE

\* C3: a role that equals "HR" in any letter case is allowed every category,
\* with an empty reason.
C3_HRAlwaysAllowed ==
    (sup_pc = "done" /\ user_role \in {"HR", "hr", "Hr", "hR"}) =>
        /\ authorized = TRUE
        /\ denial_reason = ""

C3_Witness ==
    /\ sup_pc = "done"
    /\ user_role = "hr"
    /\ task_type = ANALYTICS
    /\ authorized = TRUE
    /\ denial_reason = ""

\* C4: whenever check_authorization returns allowed = false, the reason it
\* returns is a non-empty string.
C4_DenialHasReason ==
    (sup_pc = "done" /\ authorized = FALSE) => denial_reason # ""

C4_Witness ==
    /\ sup_pc = "done"
    /\ user_role = "employee"
    /\ task_type = REPORTING
    /\ authorized = FALSE
    /\ Len(denial_reason) > 0

-----------------------------------------------------------------------------
(* Properties of the chat path and of the leave tools *)

\* C5: a request that is not authorized never reaches its handler: for an
\* Employee-role caller a chat message asking for a restricted capability
\* (one the supervisor classifies as EmployeeOverview, DepartmentStats,
\* Reporting or Analytics) is not passed to the specialist swarm:
\* process_message makes no swarm_app.invoke call for it.  (The claim also
\* asks for a denial as the answer; process_message has no such answer, so
\* the invocation is the part stated here.)
C5_UnauthorizedNeverReachesSwarm ==
    ( /\ chat_reply.kind # "none"
      /\ Upper(chat_reply.user_role) = "EMPLOYEE"
      /\ analyze_task_type(chat_reply.message)
            \in {EMPLOYEE_OVERVIEW, DEPARTMENT_STATS, REPORTING, ANALYTICS} )
    => /\ chat_reply.invoked = FALSE
       /\ \A i \in 1..Len(swarm_calls) :
             ~( /\ swarm_calls[i].message = chat_reply.message
                /\ Upper(swarm_calls[i].user_role) = "EMPLOYEE" )

\* C6: ownership constraint: a leave tool run on behalf of an Employee-role
\* caller with an employee_id different from the caller's own id is refused
\* (access denied, or the lookup failed before any record was read): its
\* text shows neither the balance nor the history of that employee and the
\* collection is not written.
C6_OwnershipEnforced ==
    ( /\ leave_reply.tool # "none"
      /\ Upper(leave_reply.caller_role) = "EMPLOYEE"
      /\ leave_reply.employee_id # leave_reply.caller_id )
    => /\ leave_reply.outcome \in {"access_denied", "error_lookup"}
       /\ leave_reply.shown_balance = {}
       /\ leave_reply.shown_history = {}
       /\ leave_reply.wrote = FALSE

-----------------------------------------------------------------------------
(* Properties of the intent classifier (checked under SpecRoute) *)

\* C7: analyze_task_type is total: for every query, the empty string
\* included, it returns a value and that value is one of the nine TaskType
\* categories.
C7_ClassifierTotal ==
    sup_pc # "start" => task_type \in TaskType

C7_Witness ==
    /\ sup_pc = "analyzed"
    /\ user_query = ""
    /\ task_type \in TaskType

\* C8: a query whose lower-cased text contains no keyword of the Leave,
\* Analytics, Reporting or Employee families (the empty string included) is
\* classified GeneralQuery.
C8_NoKeywordIsGeneral ==
    ( /\ sup_pc = "analyzed"
      /\ ~ContainsAny(leave_keywords \cup analytics_keywords
                        \cup reporting_keywords \cup employee_keywords,
                      Lower(user_query)) )
    => task_type = GENERAL_QUERY

C8_Witness ==
    /\ sup_pc = "analyzed"
    /\ user_query = "hello salary"
    /\ task_type = GENERAL_QUERY

C10_FamilyOrder ==
    sup_pc = "analyzed" =>
        LET q == Lower(user_query) IN
        /\ ( ~ContainsAny(leave_keywords, q) /\ ContainsAny(analytics_keywords, q) )
             => task_type = ANALYTICS
        /\ ( /\ ~ContainsAny(leave_keywords, q)
             /\ ~ContainsAny(analytics_keywords, q)
             /\ ContainsAny(reporting_keywords, q) )
             => task_type \in {DEPARTMENT_STATS, REPORTING}

C10_Witness ==
    /\ sup_pc = "analyzed"
    /\ user_query = "report employee"
    /\ task_type = REPORTING

\* C11: within the Leave family the category is LeaveHistory if the query
\* contains "history", otherwise LeaveApplication if it contains "apply",
\* "book" or "request", otherwise LeaveBalance; "history" takes precedence
\* over the application words.  "check my leave history", "apply for leave
\* tomorrow" and "what is my balance" get LeaveHistory, LeaveApplication and
\* LeaveBalance.
C11_LeaveSubRule ==
    sup_pc = "analyzed" =>
        LET q == Lower(user_query) IN
        /\ ContainsAny(leave_keywords, q) =>
             task_type = IF Contains("history", q) THEN LEAVE_HISTORY
                         ELSE IF Contains("apply", q) \/ Contains("book", q)
                                   \/ Contains("request", q)
                              THEN LEAVE_APPLICATION
                              ELSE LEAVE_BALANCE
        /\ user_query = "check my leave history" => task_type = LEAVE_HISTORY
        /\ user_query = "apply for leave tomorrow" => task_type = LEAVE_APPLICATION
        /\ user_query = "what is my balance" => task_type = LEAVE_BALANCE

C11_Witness ==
    /\ sup_pc = "analyzed"
    /\ user_query = "apply history"
    /\ task_type = LEAVE_HISTORY

\* C12: when Reporting is the first matching family (no Leave or Analytics
\* keyword occurs) the category is DepartmentStats if the query contains
\* "department" and Reporting otherwise; "show department stats" gets
\* DepartmentStats and "generate report" gets Reporting.
C12_ReportingSubRule ==
    sup_pc = "analyzed" =>
        LET q == Lower(user_query) IN
        /\ ( /\ ~ContainsAny(leave_keywords, q)
             /\ ~ContainsAny(analytics_keywords, q)
             /\ ContainsAny(reporting_keywords, q) )
             => task_type = IF Contains("department", q) THEN DEPARTMENT_STATS
                            ELSE REPORTING
        /\ user_query = "show department stats" => task_type = DEPARTMENT_STATS
        /\ user_query = "generate report" => task_type = REPORTING

C12_Witness ==
    /\ sup_pc = "analyzed"
    /\ user_query = "show department stats"
    /\ task_type = DEPARTMENT_STATS

\* C13: when Employee is the first matching family (no Leave, Analytics or
\* Reporting keyword occurs) the category is EmployeeOverview if the
\* lower-cased query contains "all" or "overview" as a substring, and
\* EmployeeSearch otherwise.
C13_EmployeeSubRule ==
    ( /\ sup_pc = "analyzed"
      /\ ~ContainsAny(leave_keywords \cup analytics_keywords \cup reporting_keywords,
                      Lower(user_query))
      /\ ContainsAny(employee_keywords, Lower(user_query)) )
    => task_type = IF Contains("all", Lower(user_query))
                       \/ Contains("overview", Lower(user_query))
                    THEN EMPLOYEE_OVERVIEW
                    ELSE EMPLOYEE_SEARCH

\* "all" occurs inside "finally": the test is on substrings, not on words
C13_Witness ==
    /\ sup_pc = "analyzed"
    /\ user_query = "finally employee"
    /\ task_type = EMPLOYEE_OVERVIEW

\* C14 (as stated): analyze_task_type("find employee John") is EmployeeSearch
\* and analyze_task_type("show all employees overview") is EmployeeOverview.
C14_Examples ==
    sup_pc = "analyzed" =>
        /\ user_query = "find employee John" => task_type = EMPLOYEE_SEARCH
        /\ user_query = "show all employees overview" => task_type = EMPLOYEE_OVERVIEW

\* C14 (amended): analyze_task_type("find employee John") is EmployeeSearch
\* and analyze_task_type("show all employees overview") is Reporting: the
\* query contains the Reporting keywords "overview" and "all employees", and
\* the Reporting family is tried before the Employee family.
C14_ExamplesAsCoded ==
    sup_pc = "analyzed" =>
        /\ user_query = "find employee John" => task_type = EMPLOYEE_SEARCH
        /\ user_query = "show all employees overview" => task_type = REPORTING

C14_Witness ==
    /\ sup_pc = "analyzed"
    /\ user_query = "show all employees overview"
    /\ ContainsAny(reporting_keywords, Lower(user_query))
    /\ task_type = REPORTING

-----------------------------------------------------------------------------
(* Properties of the dispatcher table (checked under SpecLookup) *)

\* C15: determine_target_agent maps every category to its fixed handler:
\* LeaveBalance, LeaveApplication, LeaveHistory to leave_agent;
\* EmployeeOverview, DepartmentStats, Reporting to reporting_agent;
\* EmployeeSearch and GeneralQuery to employee_agent; Analytics to
\* analysis_agent.  The result is always one of these four handler names,
\* also for a task type outside the enumeration (employee_agent).
C15_RoutingTable ==
    sup_pc \in {"routed", "done"} =>
        /\ task_type \in {"leave_balance", "leave_application", "leave_history"}
             => target_agent = "leave_agent"
        /\ task_type \in {"employee_overview", "department_stats", "reporting"}
             => target_agent = "reporting_agent"
        /\ task_type \in {"employee_search", "general_query"}
             => target_agent = "employee_agent"
        /\ task_type = "analytics" => target_agent = "analysis_agent"
        /\ target_agent \in {"leave_agent", "reporting_agent",
                             "employee_agent", "analysis_agent"}
        /\ task_type \notin TaskType => target_agent = "employee_agent"

C15_Witness ==
    /\ sup_pc = "routed"
    /\ task_type = "unknown_task"
    /\ target_agent = "employee_agent"

-----------------------------------------------------------------------------
(* Properties of the composed decision (checked under SpecRoute) *)

\* C16: composing analyze_task_type, determine_target_agent and
\* check_authorization: for ("check balance for E003", "HR") the decision is
\* category LeaveBalance, handler leave_agent, allowed; for ("show
\* analytics", "Employee") it is category Analytics, handler analysis_agent,
\* not allowed, with the restricted-to-HR reason.
C16_EndToEnd ==
    sup_pc = "done" =>
        /\ (user_query = "check balance for E003" /\ user_role = "HR")
             => /\ task_type = LEAVE_BALANCE
                /\ target_agent = "leave_agent"
                /\ authorized = TRUE
        /\ (user_query = "show analytics" /\ user_role = "Employee")
             => /\ task_type = ANALYTICS
                /\ target_agent = "analysis_agent"
                /\ authorized = FALSE
                /\ denial_reason = "You don't have permission to access this information. This feature is restricted to HR personnel."

C16_Witness ==
    /\ sup_pc = "done"
    /\ user_query = "show analytics"
    /\ user_role = "Employee"
    /\ target_agent = "analysis_agent"
    /\ authorized = FALSE

\* C17: routing sends each kind of request to the agent the handoff test
\* names: "check balance for E003" to leave_agent, "find employee John" to
\* employee_agent, "generate department report" to reporting_agent, and the
\* analytics request "show leave trends and analytics", which mentions
\* leave, to analysis_agent, for
\* determine_target_agent(analyze_task_type(query)).
C17_HandoffTargets ==
    sup_pc \in {"routed", "done"} =>
        /\ user_query = "check balance for E003" => target_agent = "leave_agent"
        /\ user_query = "find employee John" => target_agent = "employee_agent"
        /\ user_query = "generate department report" => target_agent = "reporting_agent"
        /\ user_query = "show leave trends and analytics" => target_agent = "analysis_agent"

-----------------------------------------------------------------------------
(* Properties of SupervisorTaskRouter (checked under SpecRouter) *)

\* C19: SupervisorTaskRouter.check_authorization denies an Employee-role
\* caller for every query whose target agent is reporting_agent or
\* analysis_agent (the handlers of the restricted categories), whatever the
\* wording of the query, and allows HR for every query and agent.  The
\* target agent is the one analyze_query_intent chose for the query.
C19_RouterGateDeniesRestrictedAgents ==
    sup_pc = "router_done" =>
        /\ ( /\ Upper(user_role) = "EMPLOYEE"
             /\ target_agent = query_intent.target_agent
             /\ target_agent \in {"reporting_agent", "analysis_agent"} )
             => authorized = FALSE
        /\ Upper(user_role) = "HR" => authorized = TRUE

\* C20: the two routers agree: for every query the target agent chosen by
\* SupervisorTaskRouter.analyze_query_intent (highest keyword-match count)
\* equals determine_target_agent(analyze_task_type(query)) (first matching
\* family in the order Leave, Analytics, Reporting, Employee).
C20_RoutersAgree ==
    sup_pc = "router_analyzed" =>
        query_intent.target_agent = determine_target_agent(analyze_task_type(user_query))

-----------------------------------------------------------------------------
(* Properties of apply_for_leave_tool (checked under SpecLeave) *)

\* C21: starting from a non-negative balance, after any sequence of
\* apply_for_leave_tool calls executed one at a time no balance is negative:
\* a request for more days than the current balance is rejected with
\* "Insufficient Leave Balance" (unless the lookup itself failed) and leaves
\* balance and history unchanged, and a request with no dates or for an
\* unknown employee is rejected without any write.
C21_BalanceNeverNegative ==
    [][ LET r == leave_reply' IN
        /\ \A e \in DOMAIN employees' : employees'[e].balance >= 0
        /\ r.tool = "apply_for_leave_tool" =>
             /\ ( /\ r.employee_id \in DOMAIN employees
                  /\ Len(r.leave_dates) > employees[r.employee_id].balance )
                  => /\ r.outcome \in {"insufficient_balance", "error_lookup"}
                     /\ employees' = employees
             /\ r.outcome = "insufficient_balance" => employees' = employees
             /\ ( r.leave_dates = <<>> \/ r.employee_id \notin DOMAIN employees )
                  => /\ r.outcome \in {"no_dates", "error_lookup"}
                     /\ employees' = employees
      ]_vars

\* a request for two days on a balance below two has been rejected
C21_Witness ==
    /\ leave_reply.tool = "apply_for_leave_tool"
    /\ leave_reply.outcome = "insufficient_balance"
    /\ leave_reply.employee_id = "E003"
    /\ Len(leave_reply.leave_dates) = 2
    /\ employees["E003"].balance \in {0, 1}

\* C22: apply_for_leave_tool is all-or-nothing: whenever it returns an error
\* result, the employee's balance and history are the same as before the
\* call, also when the history write fails after the balance write has
\* succeeded; and whenever it returns "Leave Application Approved", the
\* balance has dropped by exactly the number of requested dates and those
\* dates have been added to the history.
C22_AllOrNothing ==
    [][ LET r == leave_reply' IN
        r.tool = "apply_for_leave_tool" =>
          /\ r.outcome \in {"error_lookup", "no_dates", "insufficient_balance",
                            "error_updating_balance", "error_updating_history"}
               => employees' = employees
          /\ r.outcome = "approved"
               => LET before == employees[r.employee_id]
                      after  == employees'[r.employee_id]
                  IN /\ after.balance = before.balance - Len(r.leave_dates)
                     /\ Len(after.history) = Len(before.history) + 1
                     /\ after.history[Len(after.history)].value = r.leave_dates
      ]_vars

-----------------------------------------------------------------------------
(* Properties of interleaved apply_for_leave_tool calls (checked under
   SpecConcurrentLeave) *)

\* C23: leave days are conserved under concurrency: when two
\* apply_for_leave_tool calls for the same employee run interleaved and both
\* pass the balance check, then once both have returned the balance equals
\* the initial balance minus the sum of both requests; no deduction is lost
\* and the total deducted does not exceed the initial balance.
C23_DaysConserved ==
    ( /\ DOMAIN apply_calls = ApplyCalls
      /\ \A call \in ApplyCalls :
            /\ apply_calls[call].pc = "done"
            /\ apply_calls[call].passed_check )
    => LET initial == employees_at_start["E003"].balance
           days == Len(apply_calls["call-1"].leave_dates)
                     + Len(apply_calls["call-2"].leave_dates)
       IN /\ employees["E003"].balance = initial - days
          /\ days <= initial

-----------------------------------------------------------------------------
(* Properties of the sessions of the web server (checked under SpecWeb) *)

\* the sessions that were issued and have been removed since
RemovedSessions == issued_sessions \ DOMAIN active_sessions

EndsAlone(caller) ==
    /\ cleanup_calls[caller].pc # "idle"
    /\ cleanup_calls[caller].alone
    /\ cleanup_calls'[caller].pc = "idle"
    /\ cleanup_calls'[caller].outcome = "ok"

\* C25: cleanup_old_sessions removes exactly the sessions whose
\* last_activity lies more than 24 hours back: a session with activity (chat
\* or session reset) within the last 24 hours is never removed, and after a
\* call that runs alone no session idle for more than 24 hours remains in
\* active_sessions.
C25_ExactlyIdleSessionsRemoved ==
    [][ /\ \A sid \in DOMAIN active_sessions \ DOMAIN active_sessions' :
             now - active_sessions[sid].last_activity > Day
        /\ \A caller \in DOMAIN cleanup_calls :
             EndsAlone(caller)
                => \A sid \in DOMAIN active_sessions' :
                      now - active_sessions'[sid].last_activity <= Day
      ]_vars

\* C27: a session's conversation_count equals the number of non-empty chat
\* messages processed for it since login or since the last session reset;
\* in particular a chat request rejected with 400 "Message cannot be empty"
\* leaves conversation_count unchanged. Stated for the moments at which no
\* chat request is in progress.
C27_CountIsMessagesProcessed ==
    (\A thread \in ChatThreads : chat_calls[thread].pc = "idle")
    => \A sid \in DOMAIN active_sessions :
          active_sessions[sid].conversation_count = messages_processed[sid]

-----------------------------------------------------------------------------
(* Properties of concurrent cleanup calls (checked under SpecCleanup) *)

\* C26: cleanup_old_sessions may run at the same time in the background
\* thread and in request threads, and concurrently with logins; under every
\* interleaving no call fails: no error from deleting a session that another
\* cleanup has already removed, none from active_sessions changing while it
\* is scanned.
C26_NoCleanupCallFails ==
    \A caller \in DOMAIN cleanup_calls :
        cleanup_calls[caller].outcome \notin {"KeyError", "RuntimeError"}

-----------------------------------------------------------------------------
(* Properties of process_message: sessions and detector order (checked
   under SpecSwarm) *)

\* C28: conversation state is kept per session: when process_message is
\* called with thread_id T and routes to the swarm, the swarm is invoked
\* with configurable thread_id T, so two sessions with different thread ids
\* never share one swarm checkpoint thread.
C28_SwarmThreadIsCallerThread ==
    /\ \A i \in 1..Len(swarm_calls) :
          swarm_calls[i].thread_id = swarm_calls[i].caller_thread
    /\ \A i, j \in 1..Len(swarm_calls) :
          swarm_calls[i].caller_thread # swarm_calls[j].caller_thread
             => swarm_calls[i].thread_id # swarm_calls[j].thread_id

\* which detectors match each message and the confidence of its intent,
\* each detector evaluated on its own
DetectorMatches ==
    [msg \in ChatMessages |->
        LET m == Strip(Lower(msg)) IN
        [greeting |-> _is_greeting(m),
         gratitude |-> _is_gratitude(m),
         casual |-> _is_casual_conversation(m),
         help |-> _is_help_request(m),
         emotional |-> _needs_emotional_support(m),
         confidence |-> _analyze_intent(Lower(msg)).confidence]]

\* the conversational answers of the five detectors
DetectorKinds == {"greeting", "gratitude", "casual", "help", "emotional"}

\* C29: process_message applies its detectors in the fixed order greeting,
\* gratitude, casual conversation, help request, emotional support, and
\* reaches specialist routing only for a message that matches none of the
\* five; a message matching any detector is answered conversationally and
\* never invokes the swarm, and within routing the swarm is invoked only
\* when at least one intent pattern matches (confidence > 0), otherwise a
\* clarification question is returned.
C29_DetectorOrderThenRouting ==
    [][ user_sessions' # user_sessions =>
        LET r == chat_reply'
            m == DetectorMatches[r.message]
            greeting == m.greeting
            gratitude == m.gratitude
            casual == m.casual
            help == m.help
            emotional == m.emotional
            any == greeting \/ gratitude \/ casual \/ help \/ emotional
            confidence == m.confidence
        IN /\ greeting => r.kind = "greeting"
           /\ (~greeting /\ gratitude) => r.kind = "gratitude"
           /\ (~greeting /\ ~gratitude /\ casual) => r.kind = "casual"
           /\ (~greeting /\ ~gratitude /\ ~casual /\ help) => r.kind = "help"
           /\ (~greeting /\ ~gratitude /\ ~casual /\ ~help /\ emotional)
                 => r.kind = "emotional"
           /\ any => (~r.invoked /\ swarm_calls' = swarm_calls)
           /\ ~any => r.kind \notin DetectorKinds
           /\ (~any /\ confidence = 0)
                 => (r.kind = "clarification" /\ swarm_calls' = swarm_calls)
           /\ swarm_calls' # swarm_calls => (~any /\ confidence > 0 /\ r.invoked)
      ]_vars

\* a message that matches the casual and the help detector has been answered
\* by the casual one, and a routed message has invoked the swarm
C29_Witness ==
    /\ chat_reply.kind = "casual"
    /\ DetectorMatches[chat_reply.message].help
    /\ swarm_calls # <<>>

-----------------------------------------------------------------------------
(* Properties of the fallback responder (checked under SpecFallback) *)

\* C30: in fallback mode, a user whose employee record is found and who
\* asks for their leave history (a message containing "history", such as
\* "show my history" or "show my leave history", and not "balance") is
\* answered by get_fallback_conversational_response with the leave-history
\* text, not with a greeting or a generic reply.  (When the lookup itself
\* raises, the record is not found and the "no data" text is the answer.)
C30_HistoryRequestAnswered ==
    ( /\ chat_reply.message \in FallbackMessages
      /\ FallbackTests[chat_reply.message].history
      /\ ~FallbackTests[chat_reply.message].balance
      /\ employees_collection = "connected"
      /\ chat_reply.thread_id \in DOMAIN employees
      /\ employees[chat_reply.thread_id].history # <<>> )
    => chat_reply.kind \in {"leave_history", "leave_no_data"}

=============================================================================
